---------------------------- MODULE Spec2Model ----------------------------
(***************************************************************************)
(* A model of package baseError (src/baseError.go): the Error value, the   *)
(* functional options and their merge (ApplyOption), the constructors, the *)
(* chained mutators, Clone, the classification predicates and the stack    *)
(* capture (callers).                                                      *)
(*                                                                         *)
(* Go values are modelled as follows.                                      *)
(*  - a string that is used as a format (Msg) is a sequence of tokens, a   *)
(*    literal piece of text or a verb (the rune after a percent sign);     *)
(*  - a []string (Chain) is a slice header (arr, len, cap) over a backing  *)
(*    array kept in `arrays`; arr = 0 is the nil slice;                    *)
(*  - a *Error is an index into `objs`; 0 is the nil pointer;              *)
(*  - an error (interface) is a record: the nil interface, a plain error   *)
(*    with a text, a *Error (nil or not) or a value of another package's   *)
(*    type that prints the same type name;                                 *)
(*  - the call stack is a sequence of frames, innermost first.             *)
(***************************************************************************)
EXTENDS Integers, Sequences, FiniteSets, TLC

VARIABLES libFile, sourceDir, objs, arrays, refs, last, steps

vars == <<libFile, sourceDir, objs, arrays, refs, last, steps>>

(***************************************************************************)
(* Bounds of the model.                                                    *)
(***************************************************************************)
MaxSteps == 3
MaxChainSteps == 5
MaxOptLen == 2

(***************************************************************************)
(* Program constants.                                                      *)
(***************************************************************************)
DefaultDepth == 3
CallersSkip == 3
ScanLimit == 15

Min(a, b) == IF a < b THEN a ELSE b

Front(s) == IF Len(s) = 0 THEN s ELSE SubSeq(s, 1, Len(s) - 1)

(***************************************************************************)
(* Paths.  A file is its directory (a sequence of segments), the stem of   *)
(* its name and the suffix of its name ("_test.go" or ".go").              *)
(***************************************************************************)
File(dir, name, suffix) == [dir |-> dir, name |-> name, suffix |-> suffix]

\* filepath.Dir of a directory: its parent (the root is its own parent).
Dir(d) == Front(d)

\* filepath.Base of a directory: its last segment ("/" for the root).
Base(d) == IF Len(d) = 0 THEN "/" ELSE d[Len(d)]

\* getSourceDir: the directory, as a sequence of segments, whose slash-ended
\* text is the prefix of the library's files.
getSourceDir(file) ==
    LET dir == Dir(file.dir)
        s == Dir(dir)
    IN  IF Base(s) # "github.com" THEN dir ELSE s

\* strings.HasPrefix(file, sourceDir), sourceDir ending with a slash.
HasPrefix(file, sd) ==
    /\ Len(sd) <= Len(file.dir)
    /\ SubSeq(file.dir, 1, Len(sd)) = sd

\* strings.HasSuffix(file, "_test.go")
HasTestSuffix(file) == file.suffix = "_test.go"

\* The frame test of callers: a frame that ends the scan.
IsCallerFrame(file, sd) == ~HasPrefix(file, sd) \/ HasTestSuffix(file)

(***************************************************************************)
(* Formats.  fmt.Sprintf over token sequences.                             *)
(***************************************************************************)
Lit(s) == [k |-> "lit", s |-> s]
Verb(c) == [k |-> "verb", s |-> c]

IntArg(v) == [t |-> "int", v |-> v]
StrArg(v) == [t |-> "string", v |-> v]

\* Adjacent literal pieces are one piece of text.
RECURSIVE Norm(_)
Norm(toks) ==
    IF Len(toks) = 0 THEN <<>>
    ELSE LET h == Head(toks)
             r == Norm(Tail(toks))
         IN  IF h.k = "lit" /\ h.s = "" THEN r
             ELSE IF h.k = "lit" /\ Len(r) > 0 /\ r[1].k = "lit"
                  THEN <<Lit(h.s \o r[1].s)>> \o Tail(r)
                  ELSE <<h>> \o r

\* "%!c(type=value)": a verb that does not fit its operand.  The text begins
\* with a percent sign and an exclamation mark, which is a verb again when
\* the result is itself used as a format.
BadVerb(c, arg) == <<Verb("!"), Lit(c \o "(" \o arg.t \o "=" \o arg.v \o ")")>>

\* "%!c(MISSING)": a verb with no operand left.
Missing(c) == <<Verb("!"), Lit(c \o "(MISSING)")>>

\* One operand printed under one verb.
PrintArg(c, arg) ==
    CASE c = "v" -> <<Lit(arg.v)>>
      [] c = "d" /\ arg.t = "int" -> <<Lit(arg.v)>>
      [] c = "s" /\ arg.t = "string" -> <<Lit(arg.v)>>
      [] OTHER -> BadVerb(c, arg)

RECURSIVE ExtraList(_)
ExtraList(args) ==
    IF Len(args) = 0 THEN ""
    ELSE Head(args).t \o "=" \o Head(args).v
         \o (IF Len(args) > 1 THEN ", " ELSE "") \o ExtraList(Tail(args))

\* "%!(EXTRA type=value, ...)": operands no verb used.
Extra(args) == <<Verb("!"), Lit("(EXTRA " \o ExtraList(args) \o ")")>>

RECURSIVE DoPrintf(_, _)
DoPrintf(format, args) ==
    IF Len(format) = 0
    THEN IF Len(args) > 0 THEN Extra(args) ELSE <<>>
    ELSE LET h == Head(format) IN
         IF h.k = "lit" THEN <<h>> \o DoPrintf(Tail(format), args)
         ELSE IF Len(args) = 0
              THEN Missing(h.s) \o DoPrintf(Tail(format), args)
              ELSE PrintArg(h.s, Head(args)) \o DoPrintf(Tail(format), Tail(args))

Sprintf(format, args) == Norm(DoPrintf(format, args))

(***************************************************************************)
(* Slices of strings over the backing arrays.                              *)
(***************************************************************************)
NilSlice == [arr |-> 0, len |-> 0, cap |-> 0]

\* The elements a slice shows.
Elems(arrs, s) == IF s.len = 0 THEN <<>> ELSE SubSeq(arrs[s.arr], 1, s.len)

\* The capacity of the array append allocates when the old one is too small
\* (the runtime's growth rule for capacities below its doubling threshold).
GrowCap(oldCap, newLen) ==
    IF newLen > oldCap + oldCap THEN newLen ELSE oldCap + oldCap

\* A fresh array of capacity c holding elems, the rest zero values.
NewArray(arrs, c, elems) ==
    Append(arrs, [i \in 1..c |-> IF i <= Len(elems) THEN elems[i] ELSE ""])

\* append(s, xs...): in place when the capacity allows, else a new array.
append(arrs, s, xs) ==
    LET n == Len(xs)
        newLen == s.len + n
    IN  IF n = 0 THEN [arrays |-> arrs, slice |-> s]
        ELSE IF newLen <= s.cap
        THEN [arrays |-> [arrs EXCEPT ![s.arr] =
                            [i \in 1..s.cap |->
                                IF i > s.len /\ i <= newLen
                                THEN xs[i - s.len] ELSE @[i]]],
              slice |-> [s EXCEPT !.len = newLen]]
        ELSE LET c == GrowCap(s.cap, newLen)
                 old == Elems(arrs, s)
             IN  [arrays |-> NewArray(arrs, c, old \o xs),
                  slice |-> [arr |-> Len(arrs) + 1, len |-> newLen, cap |-> c]]

(***************************************************************************)
(* Error values (the error interface) and the Error struct.                *)
(***************************************************************************)
NilErr == [k |-> "nil", p |-> 0, text |-> <<>>]
Plain(text) == [k |-> "plain", p |-> 0, text |-> text]
Ptr(p) == [k |-> "ptr", p |-> p, text |-> <<>>]
\* A value of a type Error of another package that is also named baseError.
Foreign(text) == [k |-> "foreign", p |-> 0, text |-> text]

NoStack == [set |-> FALSE, frames |-> <<>>]

\* The zero Error.
Error0 ==
    [Code |-> "", Msg |-> <<>>, System |-> FALSE, Chain |-> NilSlice,
     cause |-> NilErr, stack |-> NoStack]

Heap(o, a) == [objs |-> o, arrays |-> a]

\* &Error{...}: the heap with one more object; the new pointer is Len(objs).
Alloc(H, e) == [H EXCEPT !.objs = Append(@, e)]

\* What a call does: the heap after it, the pointer it returns, or a panic.
Out(H, res) == [objs |-> H.objs, arrays |-> H.arrays, res |-> res, panic |-> FALSE]
Panic(H) == [objs |-> H.objs, arrays |-> H.arrays, res |-> 0, panic |-> TRUE]

\* (*Error).Error
ErrorText(e) ==
    IF e.Code # "" THEN Norm(<<Lit("[" \o e.Code \o "] ")>> \o e.Msg) ELSE e.Msg

\* err.Error() of a non-nil interface value panics on a nil *Error.
TextPanics(err) == err.k = "ptr" /\ err.p = 0

ErrText(H, err) ==
    IF err.k = "ptr" THEN ErrorText(H.objs[err.p]) ELSE err.text

(***************************************************************************)
(* The stack capture.  stk[i + 1] is the frame runtime.Caller(i) reports   *)
(* inside callers: stk[1] is callers itself.                               *)
(***************************************************************************)
Frame(fn, file) == [fn |-> fn, file |-> file]

LibFrame(fn) == Frame(fn, libFile)

\* The scan of callers: the value of s after the loop.
RECURSIVE Scan(_, _, _, _)
Scan(i, skip, stk, sd) ==
    IF i >= ScanLimit THEN skip
    ELSE IF i < Len(stk) /\ IsCallerFrame(stk[i + 1].file, sd) THEN i + 1
    ELSE Scan(i + 1, skip, stk, sd)

\* runtime.Callers(s, pcs) with len(pcs) = depth: skip 1 is callers itself.
RuntimeCallers(s, depth, stk) ==
    IF s > Len(stk) THEN <<>> ELSE SubSeq(stk, s, Min(s + depth - 1, Len(stk)))

callers(skip, depth, stk, sd) ==
    [set |-> TRUE, frames |-> RuntimeCallers(Scan(skip, skip, stk, sd), depth, stk)]

(***************************************************************************)
(* Options.                                                                *)
(***************************************************************************)
Opt0 ==
    [o |-> "nil", code |-> "", msg |-> <<>>, args |-> <<>>, chain |-> <<>>,
     cause |-> NilErr, depth |-> <<>>]

NilOption == Opt0
WithCode(code) == [Opt0 EXCEPT !.o = "WithCode", !.code = code]
WithMsg(msg) == [Opt0 EXCEPT !.o = "WithMsg", !.msg = msg]
WithMsgFormat(format, args) ==
    [Opt0 EXCEPT !.o = "WithMsgFormat", !.msg = format, !.args = args]
WithMsgArgs(args) == [Opt0 EXCEPT !.o = "WithMsgArgs", !.args = args]
WithSystem == [Opt0 EXCEPT !.o = "WithSystem"]
WithChain(chain) == [Opt0 EXCEPT !.o = "WithChain", !.chain = chain]
WithCause(cause) == [Opt0 EXCEPT !.o = "WithCause", !.cause = cause]
WithStack(depth) == [Opt0 EXCEPT !.o = "WithStack", !.depth = depth]

\* &ErrorOption{}
ErrorOption0 ==
    [code |-> "", msg |-> <<>>, system |-> FALSE, chain |-> <<>>,
     cause |-> NilErr, depth |-> 0, msgArgs |-> <<>>]

\* The depth of WithStack(depth ...int).
StackDepth(depth) ==
    IF Len(depth) > 0 /\ depth[1] > 0 THEN depth[1] ELSE DefaultDepth

\* The closures the option constructors return, applied to the accumulator.
\* A variant of SetCode in which the first code of the list stays.
SetCodeFirst(eo, code) == IF eo.code = "" THEN [eo EXCEPT !.code = code] ELSE eo

SetCode(eo, code) == [eo EXCEPT !.code = code]
SetMsg(eo, msg) == [eo EXCEPT !.msg = msg]
SetMsgFormat(eo, format, args) == [eo EXCEPT !.msg = Sprintf(format, args)]
SetMsgArgs(eo, args) == [eo EXCEPT !.msgArgs = args]
SetSystem(eo) == [eo EXCEPT !.system = TRUE]
SetChain(eo, chain) == [eo EXCEPT !.chain = @ \o chain]
SetCause(eo, cause) == [eo EXCEPT !.cause = cause]
SetStack(eo, depth) == [eo EXCEPT !.depth = StackDepth(depth)]

\* apply(errOpt) for one entry of opts; a nil entry is passed over.
ApplyOne(eo, o) ==
    CASE o.o = "nil" -> eo
      [] o.o = "WithCode" -> SetCode(eo, o.code)
      [] o.o = "WithMsg" -> SetMsg(eo, o.msg)
      [] o.o = "WithMsgFormat" -> SetMsgFormat(eo, o.msg, o.args)
      [] o.o = "WithMsgArgs" -> SetMsgArgs(eo, o.args)
      [] o.o = "WithSystem" -> SetSystem(eo)
      [] o.o = "WithChain" -> SetChain(eo, o.chain)
      [] o.o = "WithCause" -> SetCause(eo, o.cause)
      [] o.o = "WithStack" -> SetStack(eo, o.depth)

\* The loop of ApplyOption over opts.
RECURSIVE Accumulate(_, _)
Accumulate(eo, opts) ==
    IF Len(opts) = 0 THEN eo ELSE Accumulate(ApplyOne(eo, Head(opts)), Tail(opts))

\* The assignments of ApplyOption that the accumulator makes it execute.
Touches(eo) ==
    \/ eo.code # ""
    \/ eo.msg # <<>>
    \/ eo.system
    \/ Len(eo.chain) > 0
    \/ eo.cause.k # "nil"
    \/ eo.depth # 0
    \/ Len(eo.msgArgs) > 0

\* The assignments of ApplyOption, one field each, on a copy e of *err.
\* A variant of MergeCode that assigns the code even when it is empty.
MergeCodeAlways(e, eo) == [e EXCEPT !.Code = eo.code]

MergeCode(e, eo) == IF eo.code # "" THEN [e EXCEPT !.Code = eo.code] ELSE e

MergeMsg(e, eo) == IF eo.msg # <<>> THEN [e EXCEPT !.Msg = eo.msg] ELSE e

\* A variant of MergeSystem that assigns the flag of the accumulator.
MergeSystemAssign(e, eo) == [e EXCEPT !.System = eo.system]

MergeSystem(e, eo) == IF eo.system THEN [e EXCEPT !.System = TRUE] ELSE e

MergeCause(e, eo) == IF eo.cause.k # "nil" THEN [e EXCEPT !.cause = eo.cause] ELSE e

MergeStack(e, eo, outer) ==
    IF eo.depth # 0
    THEN [e EXCEPT !.stack =
             callers(CallersSkip, eo.depth,
                     <<LibFrame("callers"), LibFrame("ApplyOption")>> \o outer,
                     sourceDir)]
    ELSE e

MergeMsgArgs(e, eo) ==
    IF Len(eo.msgArgs) > 0 THEN [e EXCEPT !.Msg = Sprintf(e.Msg, eo.msgArgs)] ELSE e

\* err.Chain = append(err.Chain, errOpt.chain...)
MergeChain(arrs, e, eo) ==
    IF Len(eo.chain) > 0 THEN append(arrs, e.Chain, eo.chain)
    ELSE [arrays |-> arrs, slice |-> e.Chain]

\* A variant of Merge that formats the message before the message of the
\* list replaces it.
MergeArgsFirst(H, p, eo, outer) ==
    LET e3 == MergeSystem(MergeMsg(MergeMsgArgs(MergeCode(H.objs[p], eo), eo), eo), eo)
        ap == MergeChain(H.arrays, e3, eo)
        e4 == [e3 EXCEPT !.Chain = ap.slice]
        e7 == MergeStack(MergeCause(e4, eo), eo, outer)
    IN  Heap([H.objs EXCEPT ![p] = e7], ap.arrays)

\* The merge of the accumulator into *err (err not nil), in the order of the
\* code: code, msg, system, chain, cause, stack, and the arguments last.
Merge(H, p, eo, outer) ==
    LET e3 == MergeSystem(MergeMsg(MergeCode(H.objs[p], eo), eo), eo)
        ap == MergeChain(H.arrays, e3, eo)
        e4 == [e3 EXCEPT !.Chain = ap.slice]
        e7 == MergeMsgArgs(MergeStack(MergeCause(e4, eo), eo, outer), eo)
    IN  Heap([H.objs EXCEPT ![p] = e7], ap.arrays)

\* ApplyOption(err, opts...); outer is the stack of the caller of ApplyOption.
ApplyOption(H, p, opts, outer) ==
    IF Len(opts) = 0 THEN Out(H, p)
    ELSE LET eo == Accumulate(ErrorOption0, opts) IN
         IF p = 0
         THEN IF Touches(eo) THEN Panic(H) ELSE Out(H, p)
         ELSE Out(Merge(H, p, eo, outer), p)

(***************************************************************************)
(* Constructors.  ctx is the stack of the caller of the library.           *)
(***************************************************************************)
Construct(H, fn, e, opts, ctx) ==
    ApplyOption(Alloc(H, e), Len(H.objs) + 1, opts, <<LibFrame(fn)>> \o ctx)

New(H, msg, opts, ctx) ==
    Construct(H, "New", [Error0 EXCEPT !.Msg = msg], opts, ctx)

NewSystem(H, msg, opts, ctx) ==
    Construct(H, "NewSystem", [Error0 EXCEPT !.Msg = msg, !.System = TRUE], opts, ctx)

NewCode(H, code, msg, opts, ctx) ==
    Construct(H, "NewCode", [Error0 EXCEPT !.Code = code, !.Msg = msg], opts, ctx)

NewSystemCode(H, code, msg, opts, ctx) ==
    Construct(H, "NewSystemCode",
              [Error0 EXCEPT !.Code = code, !.Msg = msg, !.System = TRUE], opts, ctx)

\* A variant of Wrap without the test for the nil error.
WrapAlways(H, fn, code, system, err, opts, ctx) ==
    IF TextPanics(err) THEN Panic(H)
    ELSE Construct(H, fn,
                   [Error0 EXCEPT !.Code = code, !.Msg = ErrText(H, err),
                                  !.cause = err, !.System = system],
                   opts, ctx)

\* The four wrapping constructors: code is "" and system is FALSE where the
\* constructor has no such parameter or preset.
Wrap(H, fn, code, system, err, opts, ctx) ==
    IF err.k = "nil" THEN Out(H, 0)
    ELSE IF TextPanics(err) THEN Panic(H)
    ELSE Construct(H, fn,
                   [Error0 EXCEPT !.Code = code, !.Msg = ErrText(H, err),
                                  !.cause = err, !.System = system],
                   opts, ctx)

NewWrap(H, err, opts, ctx) == Wrap(H, "NewWrap", "", FALSE, err, opts, ctx)

NewSystemWrap(H, err, opts, ctx) == Wrap(H, "NewSystemWrap", "", TRUE, err, opts, ctx)

NewCodeWrap(H, code, err, opts, ctx) == Wrap(H, "NewCodeWrap", code, FALSE, err, opts, ctx)

NewSystemCodeWrap(H, code, err, opts, ctx) ==
    Wrap(H, "NewSystemCodeWrap", code, TRUE, err, opts, ctx)

\* A variant of CloneFields that copies the stack as well.
CloneFieldsAll(e) == e

\* The fields Clone copies.
CloneFields(e) ==
    [Error0 EXCEPT !.Code = e.Code, !.Msg = e.Msg, !.System = e.System,
                   !.Chain = e.Chain, !.cause = e.cause]

\* Clone(err, opts...); outer is the stack of the caller of Clone.
Clone(H, p, opts, outer) ==
    IF p = 0 THEN Out(H, 0)
    ELSE ApplyOption(Alloc(H, CloneFields(H.objs[p])), Len(H.objs) + 1, opts,
                     <<LibFrame("Clone")>> \o outer)

(***************************************************************************)
(* The chained mutators: methods of *Error; a nil receiver panics at the   *)
(* first field access.                                                     *)
(***************************************************************************)
Update(H, p, e) == Out(Heap([H.objs EXCEPT ![p] = e], H.arrays), p)

Error_WithCode(H, p, code) ==
    IF p = 0 THEN Panic(H) ELSE Update(H, p, [H.objs[p] EXCEPT !.Code = code])

Error_WithMsg(H, p, msg) ==
    IF p = 0 THEN Panic(H) ELSE Update(H, p, [H.objs[p] EXCEPT !.Msg = msg])

Error_WithMsgArgs(H, p, args) ==
    IF p = 0 THEN Panic(H)
    ELSE Update(H, p, [H.objs[p] EXCEPT !.Msg = Sprintf(@, args)])

Error_WithMsgFormat(H, p, format, args) ==
    IF p = 0 THEN Panic(H)
    ELSE Update(H, p, [H.objs[p] EXCEPT !.Msg = Sprintf(format, args)])

Error_WithSystem(H, p) ==
    IF p = 0 THEN Panic(H) ELSE Update(H, p, [H.objs[p] EXCEPT !.System = TRUE])

Error_WithChain(H, p, chain) ==
    IF p = 0 THEN Panic(H)
    ELSE LET ap == append(H.arrays, H.objs[p].Chain, chain)
         IN  Out(Heap([H.objs EXCEPT ![p].Chain = ap.slice], ap.arrays), p)

Error_WithCause(H, p, cause) ==
    IF p = 0 THEN Panic(H) ELSE Update(H, p, [H.objs[p] EXCEPT !.cause = cause])

Error_WithStack(H, p, depth, ctx) ==
    IF p = 0 THEN Panic(H)
    ELSE Update(H, p,
           [H.objs[p] EXCEPT !.stack =
               callers(CallersSkip, StackDepth(depth),
                       <<LibFrame("callers"), LibFrame("Error.WithStack")>> \o ctx,
                       sourceDir)])

Error_Clone(H, p, opts, ctx) == Clone(H, p, opts, <<LibFrame("Error.Clone")>> \o ctx)

(***************************************************************************)
(* The classification predicates: "true", "false" or "panic".              *)
(***************************************************************************)
Bool(b) == IF b THEN "true" ELSE "false"

\* reflect.TypeOf(err).String(); reflect.TypeOf of the nil interface is nil.
TypeString(err) ==
    CASE err.k = "plain" -> "*errors.errorString"
      [] err.k = "ptr" -> "*baseError.Error"
      [] err.k = "foreign" -> "*baseError.Error"

IsBaseError(H, err) ==
    IF err.k = "nil" THEN "panic" ELSE Bool(TypeString(err) = "*baseError.Error")

\* err.(*Error).System: the assertion panics on another type, the field
\* access on a nil pointer.
SystemOf(H, err, want) ==
    IF err.k = "nil" THEN "panic"
    ELSE IF TypeString(err) # "*baseError.Error" THEN "false"
    ELSE IF err.k # "ptr" \/ err.p = 0 THEN "panic"
    ELSE Bool(H.objs[err.p].System = want)

IsSystemError(H, err) == SystemOf(H, err, TRUE)

IsNotSystemError(H, err) == SystemOf(H, err, FALSE)

(***************************************************************************)
(* The inputs the callers of the library supply.                           *)
(***************************************************************************)
\* Where the package's source file lies: in the module cache, and in a
\* directory of the developer.
ModCacheFile ==
    File(<<"go", "pkg", "mod", "github.com", "go-estar", "base-error">>, "baseError", ".go")
WorkDirFile == File(<<"home", "dev", "base-error">>, "baseError", ".go")

LibFiles == {ModCacheFile, WorkDirFile}

AppMain == Frame("main.main", File(<<"srv", "app">>, "main", ".go"))
AppLoad == Frame("main.load", File(<<"srv", "app">>, "load", ".go"))
DepHandle ==
    Frame("svc.Handle", File(<<"go", "pkg", "mod", "github.com", "acme", "svc">>, "svc", ".go"))
RuntimeMain == Frame("runtime.main", File(<<"usr", "go", "src", "runtime">>, "proc", ".go"))
Goexit == Frame("runtime.goexit", File(<<"usr", "go", "src", "runtime">>, "asm", ".s"))
TRunner == Frame("testing.tRunner", File(<<"usr", "go", "src", "testing">>, "testing", ".go"))
TestFn == Frame("TestNewBaseError", File(libFile.dir, "baseError", "_test.go"))

\* Stacks of callers, the function that calls the library first.
MainCtx == <<AppMain, RuntimeMain, Goexit>>
LoadCtx == <<AppLoad, AppMain, RuntimeMain, Goexit>>
DepCtx == <<DepHandle, AppMain, RuntimeMain, Goexit>>
TestCtx == <<TestFn, TRunner, Goexit>>

Ctxs == {MainCtx, LoadCtx, DepCtx, TestCtx}

Boom == <<Lit("boom")>>
Oops == <<Lit("oops")>>
Template == <<Verb("d"), Lit("-"), Verb("s")>>
Greeting == <<Lit("hi "), Verb("s")>>

Args7x == <<IntArg("7"), StrArg("x")>>
ArgsY == <<StrArg("y")>>

IoErr == Plain(<<Lit("io")>>)
OtherErr == Foreign(<<Lit("[F] other")>>)

\* The pointers a caller can hold: those the library returned, and nil.
Targets == refs \cup {0}

\* The error values a caller can hold.
ErrValues == {NilErr, IoErr, OtherErr} \cup {Ptr(p) : p \in refs}

\* The sequences over S of length at most n.
SeqsUpTo(S, n) == UNION {[1..k -> S] : k \in 0..n}

(***************************************************************************)
(* The state machine: one action per exported operation.  `last` records   *)
(* the call just made, the heap before it and what it returned.            *)
(***************************************************************************)
H == Heap(objs, arrays)

Call0 ==
    [op |-> "", p |-> 0, code |-> "", msg |-> <<>>, err |-> NilErr, opts |-> <<>>,
     args |-> <<>>, chain |-> <<>>, depth |-> <<>>, ctx |-> <<>>,
     res |-> 0, ans |-> "", panic |-> FALSE, pre |-> Heap(<<>>, <<>>)]

InitAt(file) ==
    /\ libFile = file
    /\ sourceDir = getSourceDir(file)
    /\ objs = <<>>
    /\ arrays = <<>>
    /\ refs = {}
    /\ last = Call0
    /\ steps = 0

\* A call that returns a pointer or panics.
Do(call, out) ==
    /\ ~last.panic
    /\ objs' = out.objs
    /\ arrays' = out.arrays
    /\ refs' = IF out.panic THEN refs ELSE refs \cup {out.res}
    /\ last' = [call EXCEPT !.res = out.res, !.panic = out.panic, !.pre = H]
    /\ steps' = steps + 1
    /\ UNCHANGED <<libFile, sourceDir>>

\* A call of a predicate: the heap is only read.
Ask(call, ans) ==
    /\ ~last.panic
    /\ last' = [call EXCEPT !.ans = ans, !.panic = (ans = "panic"), !.pre = H]
    /\ steps' = steps + 1
    /\ UNCHANGED <<libFile, sourceDir, objs, arrays, refs>>

DoNew(B, M, L, X) ==
    /\ steps < B
    /\ \E msg \in M, opts \in L, ctx \in X :
          Do([Call0 EXCEPT !.op = "New", !.msg = msg, !.opts = opts, !.ctx = ctx],
             New(H, msg, opts, ctx))

DoNewSystem(B, M, L, X) ==
    /\ steps < B
    /\ \E msg \in M, opts \in L, ctx \in X :
          Do([Call0 EXCEPT !.op = "NewSystem", !.msg = msg, !.opts = opts, !.ctx = ctx],
             NewSystem(H, msg, opts, ctx))

DoNewCode(B, C, M, L, X) ==
    /\ steps < B
    /\ \E code \in C, msg \in M, opts \in L, ctx \in X :
          Do([Call0 EXCEPT !.op = "NewCode", !.code = code, !.msg = msg,
                           !.opts = opts, !.ctx = ctx],
             NewCode(H, code, msg, opts, ctx))

DoNewSystemCode(B, C, M, L, X) ==
    /\ steps < B
    /\ \E code \in C, msg \in M, opts \in L, ctx \in X :
          Do([Call0 EXCEPT !.op = "NewSystemCode", !.code = code, !.msg = msg,
                           !.opts = opts, !.ctx = ctx],
             NewSystemCode(H, code, msg, opts, ctx))

DoNewWrap(B, E, L, X) ==
    /\ steps < B
    /\ \E err \in E, opts \in L, ctx \in X :
          Do([Call0 EXCEPT !.op = "NewWrap", !.err = err, !.opts = opts, !.ctx = ctx],
             NewWrap(H, err, opts, ctx))

DoNewSystemWrap(B, E, L, X) ==
    /\ steps < B
    /\ \E err \in E, opts \in L, ctx \in X :
          Do([Call0 EXCEPT !.op = "NewSystemWrap", !.err = err, !.opts = opts,
                           !.ctx = ctx],
             NewSystemWrap(H, err, opts, ctx))

DoNewCodeWrap(B, C, E, L, X) ==
    /\ steps < B
    /\ \E code \in C, err \in E, opts \in L, ctx \in X :
          Do([Call0 EXCEPT !.op = "NewCodeWrap", !.code = code, !.err = err,
                           !.opts = opts, !.ctx = ctx],
             NewCodeWrap(H, code, err, opts, ctx))

DoNewSystemCodeWrap(B, C, E, L, X) ==
    /\ steps < B
    /\ \E code \in C, err \in E, opts \in L, ctx \in X :
          Do([Call0 EXCEPT !.op = "NewSystemCodeWrap", !.code = code, !.err = err,
                           !.opts = opts, !.ctx = ctx],
             NewSystemCodeWrap(H, code, err, opts, ctx))

DoClone(B, L, X) ==
    /\ steps < B
    /\ \E p \in Targets, opts \in L, ctx \in X :
          Do([Call0 EXCEPT !.op = "Clone", !.p = p, !.opts = opts, !.ctx = ctx],
             Clone(H, p, opts, ctx))

DoErrorClone(B, L, X) ==
    /\ steps < B
    /\ \E p \in refs, opts \in L, ctx \in X :
          Do([Call0 EXCEPT !.op = "Error.Clone", !.p = p, !.opts = opts, !.ctx = ctx],
             Error_Clone(H, p, opts, ctx))

DoApplyOption(B, L, X) ==
    /\ steps < B
    /\ \E p \in Targets, opts \in L, ctx \in X :
          Do([Call0 EXCEPT !.op = "ApplyOption", !.p = p, !.opts = opts, !.ctx = ctx],
             ApplyOption(H, p, opts, ctx))

DoWithCode(B, C) ==
    /\ steps < B
    /\ \E p \in refs, code \in C :
          Do([Call0 EXCEPT !.op = "Error.WithCode", !.p = p, !.code = code],
             Error_WithCode(H, p, code))

DoWithMsg(B, M) ==
    /\ steps < B
    /\ \E p \in refs, msg \in M :
          Do([Call0 EXCEPT !.op = "Error.WithMsg", !.p = p, !.msg = msg],
             Error_WithMsg(H, p, msg))

DoWithMsgArgs(B, A) ==
    /\ steps < B
    /\ \E p \in refs, args \in A :
          Do([Call0 EXCEPT !.op = "Error.WithMsgArgs", !.p = p, !.args = args],
             Error_WithMsgArgs(H, p, args))

DoWithMsgFormat(B, M, A) ==
    /\ steps < B
    /\ \E p \in refs, msg \in M, args \in A :
          Do([Call0 EXCEPT !.op = "Error.WithMsgFormat", !.p = p, !.msg = msg,
                           !.args = args],
             Error_WithMsgFormat(H, p, msg, args))

DoWithSystem(B) ==
    /\ steps < B
    /\ \E p \in refs :
          Do([Call0 EXCEPT !.op = "Error.WithSystem", !.p = p], Error_WithSystem(H, p))

DoWithChain(B, S) ==
    /\ steps < B
    /\ \E p \in refs, chain \in S :
          Do([Call0 EXCEPT !.op = "Error.WithChain", !.p = p, !.chain = chain],
             Error_WithChain(H, p, chain))

DoWithCause(B, E) ==
    /\ steps < B
    /\ \E p \in refs, err \in E :
          Do([Call0 EXCEPT !.op = "Error.WithCause", !.p = p, !.err = err],
             Error_WithCause(H, p, err))

DoWithStack(B, D, X) ==
    /\ steps < B
    /\ \E p \in refs, depth \in D, ctx \in X :
          Do([Call0 EXCEPT !.op = "Error.WithStack", !.p = p, !.depth = depth,
                           !.ctx = ctx],
             Error_WithStack(H, p, depth, ctx))

DoIsBaseError(B, E) ==
    /\ steps < B
    /\ \E err \in E :
          Ask([Call0 EXCEPT !.op = "IsBaseError", !.err = err], IsBaseError(H, err))

DoIsSystemError(B, E) ==
    /\ steps < B
    /\ \E err \in E :
          Ask([Call0 EXCEPT !.op = "IsSystemError", !.err = err], IsSystemError(H, err))

DoIsNotSystemError(B, E) ==
    /\ steps < B
    /\ \E err \in E :
          Ask([Call0 EXCEPT !.op = "IsNotSystemError", !.err = err],
              IsNotSystemError(H, err))

(***************************************************************************)
(* The life of error values: every operation, on short option lists.       *)
(***************************************************************************)
Init == InitAt(ModCacheFile)

OneCtx == {MainCtx}

LifeLists == {<<>>, <<WithStack(<<>>)>>, <<WithSystem>>, <<WithChain(<<"a">>)>>}
CloneLists == {<<>>, <<WithStack(<<>>)>>, <<WithCode("E2")>>}
MergeLists ==
    {<<>>, <<NilOption>>, <<WithStack(<<0>>)>>, <<WithMsgArgs(Args7x)>>,
     <<WithCode("E2"), WithMsg(Oops)>>, <<WithCause(IoErr), WithChain(<<"c">>)>>}
WrapErrs == {NilErr, IoErr} \cup {Ptr(p) : p \in refs}
AskErrs == ErrValues

Next ==
    \/ DoNew(MaxSteps, {Boom}, LifeLists, OneCtx)
    \/ DoNewSystem(MaxSteps, {Template}, {<<>>}, OneCtx)
    \/ DoNewCode(MaxSteps, {"E1"}, {Boom}, LifeLists, OneCtx)
    \/ DoNewSystemCode(MaxSteps, {"", "E1"}, {Boom}, {<<>>}, OneCtx)
    \/ DoNewWrap(MaxSteps, WrapErrs, {<<>>}, OneCtx)
    \/ DoNewSystemWrap(MaxSteps, WrapErrs, {<<>>}, OneCtx)
    \/ DoNewCodeWrap(MaxSteps, {"E1"}, WrapErrs, {<<>>}, OneCtx)
    \/ DoNewSystemCodeWrap(MaxSteps, {"E1"}, WrapErrs, {<<>>}, OneCtx)
    \/ DoClone(MaxSteps, CloneLists, OneCtx)
    \/ DoErrorClone(MaxSteps, CloneLists, OneCtx)
    \/ DoApplyOption(MaxSteps, MergeLists, OneCtx)
    \/ DoWithCode(MaxSteps, {"E2"})
    \/ DoWithMsg(MaxSteps, {Oops})
    \/ DoWithMsgArgs(MaxSteps, {ArgsY})
    \/ DoWithMsgFormat(MaxSteps, {Greeting}, {ArgsY})
    \/ DoWithSystem(MaxSteps)
    \/ DoWithChain(MaxSteps, {<<"b">>})
    \/ DoWithCause(MaxSteps, {NilErr, IoErr})
    \/ DoWithStack(MaxSteps, {<<>>}, OneCtx)
    \/ DoIsBaseError(MaxSteps, AskErrs)
    \/ DoIsSystemError(MaxSteps, AskErrs)
    \/ DoIsNotSystemError(MaxSteps, AskErrs)

Spec == Init /\ [][Next]_vars

(***************************************************************************)
(* The merge of option lists: a constructor builds the value, then         *)
(* ApplyOption merges one option list into it.                             *)
(***************************************************************************)
OptionSet ==
    {NilOption, WithCode("E2"), WithCode("E3"), WithCode(""),
     WithMsg(Oops), WithMsg(Template), WithMsg(<<>>), WithMsgFormat(Greeting, ArgsY),
     WithMsgArgs(Args7x), WithMsgArgs(ArgsY), WithMsgArgs(<<>>), WithSystem,
     WithChain(<<"b">>), WithChain(<<"c", "d">>),
     WithCause(IoErr), WithCause(OtherErr), WithCause(NilErr),
     WithStack(<<>>), WithStack(<<1>>), WithStack(<<0>>)}

OptionLists == SeqsUpTo(OptionSet, MaxOptLen)

FullList == <<WithSystem, WithChain(<<"a">>), WithCause(IoErr), WithStack(<<2>>)>>

NextOptions ==
    \/ steps = 0 /\ DoNewCode(1, {"", "E1"}, {Boom, Template}, {<<>>, FullList}, {LoadCtx})
    \/ steps = 1 /\ DoApplyOption(2, OptionLists, {LoadCtx})

SpecOptions == Init /\ [][NextOptions]_vars

\* The options of a list that are built by one of the named constructors.
Idx(opts, names) == {i \in DOMAIN opts : opts[i].o \in names}
Has(opts, names) == Idx(opts, names) # {}
Max(S) == CHOOSE x \in S : \A y \in S : y <= x
LastOpt(opts, names) == opts[Max(Idx(opts, names))]

CodeOpts == {"WithCode"}
MsgOpts == {"WithMsg", "WithMsgFormat"}
ArgsOpts == {"WithMsgArgs"}
SystemOpts == {"WithSystem"}
ChainOpts == {"WithChain"}
CauseOpts == {"WithCause"}
StackOpts == {"WithStack"}

\* The message a message option supplies.
MsgValue(o) == IF o.o = "WithMsgFormat" THEN Sprintf(o.msg, o.args) ELSE o.msg

\* The labels of all the WithChain options of a list, in the list's order.
RECURSIVE AllChains(_)
AllChains(opts) ==
    IF Len(opts) = 0 THEN <<>>
    ELSE (IF Head(opts).o = "WithChain" THEN Head(opts).chain ELSE <<>>)
         \o AllChains(Tail(opts))

\* The last call was ApplyOption on a value, and it returned.
Merged == last.op = "ApplyOption" /\ last.p # 0 /\ ~last.panic

\* The stack ApplyOption, called from last.ctx, captures at a depth.
MergedStack(depth) ==
    callers(CallersSkip, depth,
            <<LibFrame("callers"), LibFrame("ApplyOption")>> \o last.ctx, sourceDir)

\* C3: when WithMsg(t), t not empty, is the last message option of the list
\* and WithMsgArgs(a), a not empty, its last argument option, in either
\* order, ApplyOption leaves Msg = Sprintf(t, a): the arguments are applied
\* to the template of the same list, not to the previous message, and the
\* template does not stay unformatted.
C3_ArgsFormatTheNewTemplate ==
    Merged =>
        LET opts == last.opts IN
        (/\ Has(opts, MsgOpts) /\ Has(opts, ArgsOpts)
         /\ LastOpt(opts, MsgOpts).o = "WithMsg"
         /\ LastOpt(opts, MsgOpts).msg # <<>>
         /\ LastOpt(opts, ArgsOpts).args # <<>>)
        => objs[last.p].Msg =
              Sprintf(LastOpt(opts, MsgOpts).msg, LastOpt(opts, ArgsOpts).args)

\* The arguments come before the template in the list, the value had another
\* message, and the result is "7-x".
C3_Witness ==
    /\ Merged
    /\ last.opts = <<WithMsgArgs(Args7x), WithMsg(Template)>>
    /\ last.pre.objs[last.p].Msg = Boom
    /\ objs[last.p].Msg = <<Lit("7-x")>>

C7_UntargetedFieldsKept ==
    Merged =>
        LET opts == last.opts
            e == objs[last.p]
            b == last.pre.objs[last.p]
        IN  /\ last.res = last.p
            /\ ~Has(opts, CodeOpts) => e.Code = b.Code
            /\ ~Has(opts, MsgOpts \cup ArgsOpts) => e.Msg = b.Msg
            /\ ~Has(opts, SystemOpts) => e.System = b.System
            /\ ~Has(opts, ChainOpts) =>
                  /\ e.Chain = b.Chain
                  /\ Elems(arrays, e.Chain) = Elems(last.pre.arrays, b.Chain)
            /\ ~Has(opts, CauseOpts) => e.cause = b.cause
            /\ ~Has(opts, StackOpts) => e.stack = b.stack
            /\ opts = <<>> => objs = last.pre.objs /\ arrays = last.pre.arrays

\* A list that sets the message only, merged into a value that has a code, a
\* chain, a cause and a stack.
C7_Witness ==
    /\ Merged
    /\ last.opts = <<WithMsg(Oops), NilOption>>
    /\ objs[last.p].Msg = Oops
    /\ objs[last.p].Code = "E1"
    /\ objs[last.p].System
    /\ Elems(arrays, objs[last.p].Chain) = <<"a">>
    /\ objs[last.p].cause = IoErr
    /\ objs[last.p].stack.set

(***************************************************************************)
(* Claims on the life of error values (Spec).                              *)
(***************************************************************************)
CloneOps == {"Clone", "Error.Clone"}
WrapOps == {"NewWrap", "NewSystemWrap", "NewCodeWrap", "NewSystemCodeWrap"}
AskOps == {"IsBaseError", "IsSystemError", "IsNotSystemError"}

\* The last call cloned a value.
Cloned == last.op \in CloneOps /\ last.p # 0 /\ ~last.panic

\* The stack an object had before the last call (none if the call made it).
StackBefore(o) ==
    IF o \in DOMAIN last.pre.objs THEN last.pre.objs[o].stack ELSE NoStack

\* C1: no call of a constructor, of ApplyOption, of Clone or of a mutator
\* panics.
C1_NeverPanics == last.op \notin AskOps => ~last.panic

\* C5: each predicate answers true or false on every error value; on a
\* value IsBaseError accepts exactly one of IsSystemError, IsNotSystemError
\* is true, on any other value both are false.
C5_ExclusiveAndExhaustive ==
    last.op \in AskOps =>
        LET b == IsBaseError(H, last.err)
            s == IsSystemError(H, last.err)
            n == IsNotSystemError(H, last.err)
        IN  /\ last.ans \in {"true", "false"}
            /\ {b, s, n} \subseteq {"true", "false"}
            /\ b = "true" => (s = "true") # (n = "true")
            /\ b = "false" => s = "false" /\ n = "false"

\* C6: Clone with no options returns a new Error with the Code, Msg, System,
\* Chain and cause of its source and no stack, whether or not the source has
\* one; and the stack of a value changes only by a WithStack mutator on it or
\* a WithStack option merged into it.
C6_CloneCopiesAllButStack ==
    /\ (Cloned /\ last.opts = <<>>) =>
          LET s == last.pre.objs[last.p]
              c == objs[last.res]
          IN  /\ last.res \notin DOMAIN last.pre.objs
              /\ objs[last.p] = s
              /\ c.Code = s.Code
              /\ c.Msg = s.Msg
              /\ c.System = s.System
              /\ Elems(arrays, c.Chain) = Elems(last.pre.arrays, s.Chain)
              /\ c.cause = s.cause
              /\ ~c.stack.set
    /\ \A o \in DOMAIN objs :
          objs[o].stack # StackBefore(o) =>
             \/ last.op = "Error.WithStack" /\ last.p = o
             \/ Has(last.opts, StackOpts) /\ last.res = o

\* A clone, made with no options, of a value that has a code, a chain and a
\* stack.
C6_Witness ==
    /\ Cloned
    /\ last.opts = <<>>
    /\ last.pre.objs[last.p].stack.set
    /\ last.pre.objs[last.p].Code = "E1"
    /\ Elems(arrays, objs[last.res].Chain) # <<>>
    /\ ~objs[last.res].stack.set

\* C8: no call resets System from true to false on any value, and the clone
\* of a value with System true has System true.
C8_SystemMonotonic ==
    /\ \A o \in DOMAIN last.pre.objs : last.pre.objs[o].System => objs[o].System
    /\ (Cloned /\ last.pre.objs[last.p].System) => objs[last.res].System

\* Options without WithSystem merged into a value whose System is true.
C8_Witness ==
    /\ Merged
    /\ last.opts = <<WithStack(<<0>>)>>
    /\ last.pre.objs[last.p].System
    /\ objs[last.p].System

(***************************************************************************)
(* Wrapping: a first call makes a value or wraps without options, a second *)
(* call wraps with an option list.                                         *)
(***************************************************************************)
WrapOptionSet ==
    {NilOption, WithCode("E2"), WithMsg(Oops), WithMsgArgs(ArgsY), WithSystem,
     WithCause(OtherErr), WithStack(<<>>)}

WrapLists == SeqsUpTo(WrapOptionSet, MaxOptLen)

NextWrap ==
    \/ steps = 0 /\ DoNewCode(1, {"", "E1"}, {Boom}, {<<>>, <<WithSystem>>}, OneCtx)
    \/ steps = 0 /\ DoNewWrap(1, {NilErr, IoErr}, {<<>>}, OneCtx)
    \/ steps = 1 /\ DoNewWrap(2, ErrValues, WrapLists, OneCtx)
    \/ steps = 1 /\ DoNewSystemWrap(2, ErrValues, WrapLists, OneCtx)
    \/ steps = 1 /\ DoNewCodeWrap(2, {"", "E1"}, ErrValues, WrapLists, OneCtx)
    \/ steps = 1 /\ DoNewSystemCodeWrap(2, {"", "E1"}, ErrValues, WrapLists, OneCtx)

SpecWrap == Init /\ [][NextWrap]_vars

NextChain ==
    \/ DoNew(1, {Boom}, {<<WithChain(<<"a">>)>>}, OneCtx)
    \/ DoWithChain(MaxChainSteps, {<<"b">>})
    \/ DoApplyOption(MaxChainSteps, {<<WithChain(<<"c">>)>>}, OneCtx)
    \/ DoClone(MaxChainSteps, {<<>>, <<WithChain(<<"x">>)>>, <<WithChain(<<"y">>)>>}, OneCtx)

SpecChain == Init /\ [][NextChain]_vars

\* C10: a call changes the Chain contents of no value but the one it
\* returns: the source of a clone and the other clones keep their labels.
C10_CloneIsolation ==
    \A o \in DOMAIN last.pre.objs :
        o # last.res =>
            Elems(arrays, objs[o].Chain) = Elems(last.pre.arrays, last.pre.objs[o].Chain)

(***************************************************************************)
(* Stack capture from several callers, for each place of the source file.  *)
(***************************************************************************)
InitStack == \E f \in LibFiles : InitAt(f)

Depths == {<<>>, <<1>>, <<0>>, <<-1>>}

StackLists == {<<WithStack(d)>> : d \in Depths}

NextStack ==
    \/ DoNew(2, {Boom}, StackLists, Ctxs)
    \/ DoClone(2, StackLists, Ctxs)
    \/ DoErrorClone(2, StackLists, Ctxs)
    \/ DoApplyOption(2, StackLists, Ctxs)
    \/ DoWithStack(2, Depths, Ctxs)

SpecStack == InitStack /\ [][NextStack]_vars

\* The last call captured a stack into the value it returned.
Captured ==
    /\ ~last.panic
    /\ last.res # 0
    /\ last.op = "Error.WithStack" \/ Has(last.opts, StackOpts)

\* C2: the first frame of a captured stack is the frame of the function that
\* called the library (the test function when that is in a _test.go file).
C2_FirstFrameIsTheCaller ==
    Captured =>
        /\ objs[last.res].stack.set
        /\ objs[last.res].stack.frames # <<>>
        /\ objs[last.res].stack.frames[1] = last.ctx[1]

=============================================================================
